---- MODULE Spec2Model ----
(***************************************************************************)
(* A model of the UTD Campus Assistant prototype: the index load/build     *)
(* routine get_vector_store (src/main.py), the two CSV ingestion adapters  *)
(* (src/main.py), the tabular filter (src/filter_data.py), the HTTP        *)
(* endpoint (src/api.py) and the chat front-end (src/frontend.py).         *)
(*                                                                         *)
(* Strings produced by f-strings are modelled as sequences of string       *)
(* pieces; concatenation is \o.  The libraries the code calls (FAISS, S3,  *)
(* the document loaders, the embedding service) are the environment: what  *)
(* they return or raise is chosen nondeterministically where the code      *)
(* calls them.                                                             *)
(***************************************************************************)
EXTENDS Integers, Sequences, FiniteSets, TLC

VARIABLES
    \* ---- get_vector_store (src/main.py:112-236) ----
    pc,                 \* position of the running call
    local_index,        \* the folder FAISS_VECTOR_STORE_PATH on local disk
    s3_object,          \* the object S3_INDEX_NAME in bucket S3_BUCKET_NAME
    zip_file,           \* the file S3_INDEX_NAME in the working directory
    data_dir,           \* listing of data/ as glob("*") yields it
    fidx,               \* number of files of data_dir the loop has handled
    all_docs,           \* all_docs
    texts,              \* texts
    metadatas,          \* metadatas
    text_batches,       \* text_batches
    metadata_batches,   \* metadata_batches
    i,                  \* the batch loop's index
    vector_store,       \* vector_store
    result,             \* what the call returned or raised
    calls,              \* the library calls made so far, in order, with outcome
    \* ---- filter_data_from_csv (src/filter_data.py:6-26) ----
    csv_in,             \* the file read: its name, its course-number column, its rows
    csv_out,            \* the file written by to_csv
    \* ---- the API process (src/api.py) ----
    api_pc,             \* "import" while the module body runs, then "serving"
    api_vector_store,   \* api.vector_store
    rag_chain,          \* api.rag_chain
    api_loads,          \* number of calls of main.get_vector_store
    requests,           \* the /query requests received, in order of arrival
    invocations,        \* the calls of rag_chain.invoke, in order
    \* ---- the chat front-end (src/frontend.py) ----
    fe_pc,              \* position of the script run; "input" between runs
    messages,           \* st.session_state.messages
    prompt,             \* prompt
    response,           \* what requests.post returned or raised
    answer,             \* answer
    exchanges           \* the prompts submitted so far, each with its HTTP outcome

index_vars == <<pc, local_index, s3_object, zip_file, data_dir, fidx, all_docs,
                texts, metadatas, text_batches, metadata_batches, i,
                vector_store, result, calls>>

filter_vars == <<csv_in, csv_out>>

api_vars == <<api_pc, api_vector_store, rag_chain, api_loads, requests, invocations>>

frontend_vars == <<fe_pc, messages, prompt, response, answer, exchanges>>

vars == <<index_vars, filter_vars, api_vars, frontend_vars>>

----------------------------------------------------------------------------
(* Bounds of the model *)

\* largest number of files in the data directory
MaxFiles == 2

\* largest chunk list the batching specification starts from
MaxChunks == 201

\* largest number of lines after the header in a CSV file
MaxRows == 3

\* largest number of rows in a file the filter script reads
MaxFilterRows == 2

\* largest number of /query requests the API process receives
MaxRequests == 3

(* Program constants *)

batch_size == 100

\* search_kwargs={"k": 10}
top_k == 10

----------------------------------------------------------------------------
(* Values *)

Min(a, b) == IF a < b THEN a ELSE b

\* Python's None where the code holds a vector store
NoStore == [none |-> TRUE, entries |-> <<>>]

Store(entries) == [none |-> FALSE, entries |-> entries]

\* An index that an earlier run left on disk or in the bucket
OldEntries == << [text |-> <<"old text">>, metadata |-> [source |-> "old"]] >>

\* The index folder: absent, present but unloadable, or a saved index
NoFolder == [exists |-> FALSE, loadable |-> FALSE, entries |-> <<>>]

CorruptFolder == [exists |-> TRUE, loadable |-> FALSE, entries |-> <<>>]

SavedFolder(entries) == [exists |-> TRUE, loadable |-> TRUE, entries |-> entries]

\* A zip file (local or in the bucket): absent, not a zip, or the archive of a folder
NoZip == [exists |-> FALSE, valid_zip |-> FALSE, folder |-> NoFolder]

BadZip == [exists |-> TRUE, valid_zip |-> FALSE, folder |-> NoFolder]

ZipOf(folder) == [exists |-> TRUE, valid_zip |-> TRUE, folder |-> folder]

Pending == [kind |-> "pending", value |-> NoStore]

Returned(store) == [kind |-> "return", value |-> store]

Raised == [kind |-> "raise", value |-> NoStore]

Call(name, outcome) == [name |-> name, file |-> "", outcome |-> outcome]

\* a call made for one file of the data directory
FileCall(name, file, outcome) == [name |-> name, file |-> file, outcome |-> outcome]

----------------------------------------------------------------------------
(* Python values and string formatting *)

\* None as a dictionary value (csv.DictReader's restval)
NoneVal == "<None>"

\* None as a dictionary key (csv.DictReader's restkey, for surplus cells)
NoneKey == "<restkey>"

\* str(v) as an f-string applies it
Str(v) == IF v = NoneVal THEN "None" ELSE v

\* truth value of a cell: None and the empty string are false
Truthy(v) == v # NoneVal /\ v # ""

\* k.strip() for the column names of the model
Strip(k) ==
    CASE k = "Section " -> "Section"
      [] k = " A" -> "A"
      [] OTHER -> k

RECURSIVE Concat(_)
\* the concatenation of a sequence of sequences
Concat(parts) ==
    IF parts = <<>> THEN <<>> ELSE Head(parts) \o Concat(Tail(parts))

RECURSIVE Join(_, _)
\* sep.join(items)
Join(sep, items) ==
    IF items = <<>> THEN <<>>
    ELSE IF Len(items) = 1 THEN Head(items)
    ELSE Head(items) \o <<sep>> \o Join(sep, Tail(items))

----------------------------------------------------------------------------
(* csv.DictReader *)

\* The rows DictReader yields: blank lines are skipped
DataRows(rows) == SelectSeq(rows, LAMBDA cells : cells # <<>>)

\* A row as DictReader builds it: keys in header order, short rows padded
\* with None, surplus cells collected under the key None
DictKeys(header, cells) ==
    IF Len(cells) > Len(header) THEN Append(header, NoneKey) ELSE header

DictVals(header, cells) ==
    LET padded == [j \in 1..Len(header) |->
                      IF j <= Len(cells) THEN cells[j] ELSE NoneVal]
    IN  IF Len(cells) > Len(header) THEN Append(padded, "<surplus cells>")
        ELSE padded

HasKey(keys, k) == \E j \in 1..Len(keys) : keys[j] = k

\* row[k] for a key that is present (the last occurrence wins, as in a dict)
Get(keys, vals, k) ==
    vals[CHOOSE j \in 1..Len(keys) :
            keys[j] = k /\ \A m \in (j+1)..Len(keys) : keys[m] # k]

\* row.get(k, default)
GetOr(keys, vals, k, default) ==
    IF HasKey(keys, k) THEN Get(keys, vals, k) ELSE default

----------------------------------------------------------------------------
(* _load_grade_history_csv *)

GradeColumns == {"A+", "A", "A-", "B+", "B", "B-", "C+", "C", "C-",
                 "D+", "D", "D-", "F", "W", "P"}

GradeRequired == {"Subject", "Catalog Nbr", "Section", "Instructor 1"}

\* the keys after `row = {k.strip(): v ...}`
StrippedKeys(keys) == [j \in 1..Len(keys) |-> Strip(keys[j])]

\* whether the loop body raises on this row: None.strip() for the key of
\* surplus cells (AttributeError), or a required column absent (KeyError)
GradeRowRaises(header, cells) ==
    LET keys == DictKeys(header, cells)
    IN  \/ HasKey(keys, NoneKey)
        \/ \E k \in GradeRequired : ~HasKey(StrippedKeys(keys), k)

RECURSIVE GradeItems(_, _, _)
\* grades: "k: v" for the grade columns with a true value, in column order
GradeItems(keys, vals, j) ==
    IF j > Len(keys) THEN <<>>
    ELSE (IF keys[j] \in GradeColumns /\ Truthy(vals[j])
          THEN << <<keys[j], ": ", vals[j]>> >> ELSE <<>>)
         \o GradeItems(keys, vals, j + 1)

GradeStr(keys, vals) == Join(", ", GradeItems(keys, vals, 1))

GradeDoc(name, header, cells, idx) ==
    LET keys == StrippedKeys(DictKeys(header, cells))
        vals == DictVals(header, cells)
    IN  [page_content |->
            <<"In a past semester, for course ", Str(Get(keys, vals, "Subject")),
              " ", Str(Get(keys, vals, "Catalog Nbr")),
              " Section ", Str(Get(keys, vals, "Section")),
              ", the instructor ", Str(Get(keys, vals, "Instructor 1")),
              " (and others: ", Str(GetOr(keys, vals, "Instructor 2", "N/A")),
              ", ", Str(GetOr(keys, vals, "Instructor 3", "N/A")),
              ") gave the following grades: ">>
            \o GradeStr(keys, vals) \o <<".">>,
         metadata |->
            [source |-> name,
             row |-> idx,
             course |-> <<Str(Get(keys, vals, "Subject")), " ",
                          Str(Get(keys, vals, "Catalog Nbr"))>>,
             professor |-> Get(keys, vals, "Instructor 1")],
         windows |-> 1]

\* the loader's outcome: the documents, or an exception that discards them
LoadGradeHistoryCsv(name, header, rows) ==
    LET data == DataRows(rows)
    IN  IF \E r \in 1..Len(data) : GradeRowRaises(header, data[r])
        THEN [raised |-> TRUE, docs |-> <<>>]
        ELSE [raised |-> FALSE,
              docs |-> [r \in 1..Len(data) |->
                           GradeDoc(name, header, data[r], r - 1)]]

----------------------------------------------------------------------------
(* _load_coursebook_csv *)

CoursebookRequired ==
    {"course_prefix", "course_number", "section", "class_number", "title",
     "instructor_s", "days", "times_12h", "location", "enrolled_status",
     "enrolled_current", "enrolled_max"}

\* whether the loop body raises on this row: a required column absent (KeyError)
CoursebookRowRaises(header, cells) ==
    \E k \in CoursebookRequired : ~HasKey(DictKeys(header, cells), k)

CoursebookDoc(name, header, cells, idx) ==
    LET keys == DictKeys(header, cells)
        vals == DictVals(header, cells)
        F(k) == Str(Get(keys, vals, k))
    IN  [page_content |->
            <<"Course Section: ", F("course_prefix"), " ", F("course_number"),
              ".", F("section"), " (Class Number: ", F("class_number"), "). ",
              "Title: ", F("title"), ". ",
              "Instructor: ", F("instructor_s"), ". ",
              "Schedule: ", F("days"), " from ", F("times_12h"), ". ",
              "Location: ", F("location"), ". ",
              "Status: ", F("enrolled_status"), " (", F("enrolled_current"),
              "/", F("enrolled_max"), " enrolled).">>,
         metadata |->
            [source |-> name,
             row |-> idx,
             course |-> <<F("course_prefix"), " ", F("course_number")>>],
         windows |-> 1]

LoadCoursebookCsv(name, header, rows) ==
    LET data == DataRows(rows)
    IN  IF \E r \in 1..Len(data) : CoursebookRowRaises(header, data[r])
        THEN [raised |-> TRUE, docs |-> <<>>]
        ELSE [raised |-> FALSE,
              docs |-> [r \in 1..Len(data) |->
                           CoursebookDoc(name, header, data[r], r - 1)]]

----------------------------------------------------------------------------
(* The data directory *)

GradeHeader ==
    <<"Subject", "Catalog Nbr", "Section ", "Instructor 1", "Instructor 2",
      "A", "B+", "W", "Total">>

\* the header filter_data.py leaves in filtered_Spring 2022.csv
Spring2022Header ==
    <<"Subject", "Catalog Number", "Section ", "Instructor 1", "Instructor 2",
      "A", "B+", "W", "Total">>

CoursebookHeader ==
    <<"course_prefix", "course_number", "section", "class_number", "title",
      "instructor_s", "days", "times_12h", "location", "enrolled_status",
      "enrolled_current", "enrolled_max">>

GradeRowFull == <<"CS", "6301", "001", "Smith", "", "27", "", "3", "30">>

GradeRowShort == <<"CS", "6375", "002", "Lee">>

GradeRowLong == <<"CS", "6360", "003", "Khan", "Ng", "9", "4", "", "13", "note">>

CoursebookRowFull ==
    <<"cs", "6313", "001", "21001", "Statistical Methods", "Chen",
      "Tuesday, Thursday", "2:30 PM - 3:45 PM", "AD_3.216", "Open", "40", "60">>

CoursebookRowShort == <<"cs", "6350", "002", "21002", "Big Data">>

CoursebookRowLong == Append(CoursebookRowFull, "note")

File(name, load_raises, pages, header, rows) ==
    [name |-> name, load_raises |-> load_raises, pages |-> pages,
     header |-> header, rows |-> rows]

\* pages: for a PDF the number of 1000-character windows of each page's text,
\* for a Word document those of the whole text (0: the text is empty)
FileSamples ==
    { File("Academic_Calendar_Spring_2026.pdf", FALSE, <<1, 2>>, <<>>, <<>>),
      File("scanned.pdf", FALSE, <<0>>, <<>>, <<>>),
      File("broken.pdf", TRUE, <<>>, <<>>, <<>>),
      File("Track info.docx", FALSE, <<101>>, <<>>, <<>>),
      File("2026 coursebook.csv", FALSE, <<>>, CoursebookHeader,
           <<CoursebookRowFull, CoursebookRowShort>>),
      File("filtered_Spring 2022.csv", FALSE, <<>>, Spring2022Header,
           <<GradeRowFull>>),
      File("Fall 2023.csv", FALSE, <<>>, GradeHeader, <<GradeRowFull>>),
      File("ratings.json", FALSE, <<>>, <<>>, <<>>) }

\* file_path.suffix
Suffix(name) ==
    CASE name \in {"Academic_Calendar_Spring_2026.pdf", "scanned.pdf",
                   "broken.pdf"} -> ".pdf"
      [] name \in {"Track info.docx"} -> ".docx"
      [] name \in {"2026 coursebook.csv", "filtered_Fall 2023.csv",
                   "filtered_Spring 2022.csv", "Fall 2023.csv"} -> ".csv"
      [] OTHER -> ".json"

\* `word in file_path.name.lower()`
NameContains(name, word) ==
    CASE word = "coursebook" -> name \in {"2026 coursebook.csv"}
      [] word = "filtered_" -> name \in {"filtered_Fall 2023.csv",
                                         "filtered_Spring 2022.csv"}
      [] OTHER -> FALSE

\* what data_dir.glob("*") can yield: up to MaxFiles files, in any order
Listings ==
    UNION { { l \in [1..n -> FileSamples] :
                \A a, b \in 1..n : a # b => l[a].name # l[b].name }
            : n \in 0..MaxFiles }

\* PyPDFLoader(...).load(): one document per page
LoadPdf(f) ==
    IF f.load_raises THEN [raised |-> TRUE, docs |-> <<>>]
    ELSE [raised |-> FALSE,
          docs |-> [p \in 1..Len(f.pages) |->
                       [page_content |-> <<"text of ", f.name, " page ", ToString(p - 1)>>,
                        metadata |-> [source |-> f.name, page |-> p - 1],
                        windows |-> f.pages[p]]]]

\* Docx2txtLoader(...).load(): one document for the file
LoadDocx(f) ==
    IF f.load_raises THEN [raised |-> TRUE, docs |-> <<>>]
    ELSE [raised |-> FALSE,
          docs |-> << [page_content |-> <<"text of ", f.name>>,
                       metadata |-> [source |-> f.name],
                       windows |-> f.pages[1]] >>]

\* one pass of the loop body over file f: the loader called (or "skip") and
\* its outcome
LoadFile(f) ==
    CASE Suffix(f.name) = ".pdf" -> LoadPdf(f)
      [] Suffix(f.name) = ".docx" -> LoadDocx(f)
      [] Suffix(f.name) = ".csv" /\ NameContains(f.name, "coursebook") ->
            LoadCoursebookCsv(f.name, f.header, f.rows)
      [] Suffix(f.name) = ".csv" /\ ~NameContains(f.name, "coursebook")
            /\ NameContains(f.name, "filtered_") ->
            LoadGradeHistoryCsv(f.name, f.header, f.rows)
      [] OTHER -> [raised |-> FALSE, docs |-> <<>>]

\* whether the loop has a loader for f
Supported(f) ==
    \/ Suffix(f.name) \in {".pdf", ".docx"}
    \/ /\ Suffix(f.name) = ".csv"
       /\ \/ NameContains(f.name, "coursebook")
          \/ NameContains(f.name, "filtered_")

----------------------------------------------------------------------------
(* Chunking and batching *)

\* text_splitter.split_documents for one document: one chunk per window,
\* each with the document's metadata; an empty text gives no chunk
SplitDocument(d) ==
    [k \in 1..d.windows |->
        [page_content |-> [of |-> d.page_content, window |-> k],
         metadata |-> d.metadata]]

RECURSIVE SplitDocuments(_)
\* the documents' chunks, in document order
SplitDocuments(ds) ==
    IF ds = <<>> THEN <<>>
    ELSE IF Len(ds) = 1 THEN SplitDocument(ds[1])
    ELSE LET h == Len(ds) \div 2
         IN  SplitDocuments(SubSeq(ds, 1, h))
                \o SplitDocuments(SubSeq(ds, h + 1, Len(ds)))

\* range(0, n, step) as a sequence
Range0(n, step) ==
    [k \in 1..Cardinality({s \in 0..(n - 1) : s % step = 0}) |-> (k - 1) * step]

\* data[a:b] for 0 <= a <= b
Slice(data, a, b) == SubSeq(data, a + 1, Min(b, Len(data)))

\* batch_generator with the slice one short: data[i:i + size - 1]
batch_generator_short(data, size) ==
    LET starts == Range0(Len(data), size)
    IN  [b \in 1..Len(starts) |-> Slice(data, starts[b], starts[b] + size - 1)]

\* list(batch_generator(data, size))
batch_generator(data, size) ==
    LET starts == Range0(Len(data), size)
    IN  [b \in 1..Len(starts) |-> Slice(data, starts[b], starts[b] + size)]

\* the (text, metadata) entries FAISS adds for one batch
Entries(text_batch, metadata_batch) ==
    [j \in 1..Len(text_batch) |->
        [text |-> text_batch[j], metadata |-> metadata_batch[j]]]

\* FAISS.from_texts(text_batch, embedding_model, metadatas=metadata_batch)
FromTexts(text_batch, metadata_batch) ==
    Store(Entries(text_batch, metadata_batch))

\* vector_store.add_texts(text_batch, metadatas=metadata_batch)
AddTexts(store, text_batch, metadata_batch) ==
    Store(store.entries \o Entries(text_batch, metadata_batch))

----------------------------------------------------------------------------
(* get_vector_store, step by step *)

disk == <<local_index, s3_object, zip_file>>

ingest == <<data_dir, fidx, all_docs>>

build == <<texts, metadatas, text_batches, metadata_batches, i, vector_store>>

Log(name, outcome) == calls' = Append(calls, Call(name, outcome))

\* LoadLocal without the return after a successful load
LoadLocal_NoReturn ==
    /\ pc = "start"
    /\ UNCHANGED <<filter_vars, api_vars, frontend_vars>>
    /\ \/ /\ local_index.exists /\ local_index.loadable
          /\ calls' = calls \o <<Call("exists", "true"), Call("load_local", "ok")>>
          /\ pc' = "s3"
          /\ UNCHANGED result
       \/ /\ local_index.exists /\ ~local_index.loadable
          /\ calls' = calls \o <<Call("exists", "true"), Call("load_local", "raise")>>
          /\ pc' = "s3"
          /\ UNCHANGED result
       \/ /\ ~local_index.exists
          /\ Log("exists", "false")
          /\ pc' = "s3"
          /\ UNCHANGED result
    /\ UNCHANGED <<disk, ingest, build>>

\* main.py:113-126  the local copy
LoadLocal ==
    /\ pc = "start"
    /\ UNCHANGED <<filter_vars, api_vars, frontend_vars>>
    /\ \/ /\ local_index.exists /\ local_index.loadable
          /\ calls' = calls \o <<Call("exists", "true"), Call("load_local", "ok")>>
          /\ result' = Returned(Store(local_index.entries))
          /\ pc' = "done"
       \/ /\ local_index.exists /\ ~local_index.loadable
          /\ calls' = calls \o <<Call("exists", "true"), Call("load_local", "raise")>>
          /\ pc' = "s3"
          /\ UNCHANGED result
       \/ /\ ~local_index.exists
          /\ Log("exists", "false")
          /\ pc' = "s3"
          /\ UNCHANGED result
    /\ UNCHANGED <<disk, ingest, build>>

\* S3Download outside any try block: a failed download leaves the function
S3Download_Propagates ==
    /\ pc = "s3"
    /\ UNCHANGED <<filter_vars, api_vars, frontend_vars>>
    /\ \/ /\ s3_object.exists
          /\ Log("download_file", "ok")
          /\ zip_file' = s3_object
          /\ pc' = "unzip"
          /\ UNCHANGED result
       \/ /\ Log("download_file", "raise")
          /\ result' = Raised
          /\ pc' = "done"
          /\ UNCHANGED zip_file
    /\ UNCHANGED <<local_index, s3_object, ingest, build>>

\* main.py:128-130  s3_client.download_file; it writes the file only on success
S3Download ==
    /\ pc = "s3"
    /\ UNCHANGED <<filter_vars, api_vars, frontend_vars>>
    /\ \/ /\ s3_object.exists
          /\ Log("download_file", "ok")
          /\ zip_file' = s3_object
          /\ pc' = "unzip"
       \/ /\ Log("download_file", "raise")
          /\ pc' = "rebuild"
          /\ UNCHANGED zip_file
    /\ UNCHANGED <<local_index, s3_object, ingest, build, result>>

\* main.py:132-135  zipfile.ZipFile(...).extractall into the index folder
S3Unzip ==
    /\ pc = "unzip"
    /\ UNCHANGED <<filter_vars, api_vars, frontend_vars>>
    /\ \/ /\ zip_file.valid_zip
          /\ Log("extractall", "ok")
          /\ local_index' = [exists |-> TRUE,
                             loadable |-> zip_file.folder.loadable,
                             entries |-> zip_file.folder.entries]
          /\ pc' = "remove"
       \/ /\ ~zip_file.valid_zip
          /\ Log("extractall", "raise")
          /\ pc' = "rebuild"
          /\ UNCHANGED local_index
    /\ UNCHANGED <<s3_object, zip_file, ingest, build, result>>

\* main.py:137  os.remove(S3_INDEX_NAME)
S3Remove ==
    /\ pc = "remove"
    /\ UNCHANGED <<filter_vars, api_vars, frontend_vars>>
    /\ zip_file' = NoZip
    /\ pc' = "s3load"
    /\ UNCHANGED <<local_index, s3_object, ingest, build, result, calls>>

\* main.py:139-146  the load of the unzipped folder
S3Load ==
    /\ pc = "s3load"
    /\ UNCHANGED <<filter_vars, api_vars, frontend_vars>>
    /\ \/ /\ local_index.loadable
          /\ Log("load_local", "ok")
          /\ result' = Returned(Store(local_index.entries))
          /\ pc' = "done"
       \/ /\ ~local_index.loadable
          /\ Log("load_local", "raise")
          /\ pc' = "rebuild"
          /\ UNCHANGED result
    /\ UNCHANGED <<disk, ingest, build>>

\* main.py:148-152  the rebuild starts: the data directory is listed
Glob ==
    /\ pc = "rebuild"
    /\ UNCHANGED <<filter_vars, api_vars, frontend_vars>>
    /\ \E listing \in Listings : data_dir' = listing
    /\ all_docs' = <<>>
    /\ fidx' = 0
    /\ Log("glob", "ok")
    /\ pc' = "ingest"
    /\ UNCHANGED <<disk, build, result>>

\* IngestFile with the try block around the loop: a loader's exception ends it
IngestFile_AbortsLoop ==
    /\ pc = "ingest"
    /\ UNCHANGED <<filter_vars, api_vars, frontend_vars>>
    /\ fidx < Len(data_dir)
    /\ LET f == data_dir[fidx + 1]
           loaded == LoadFile(f)
       IN  \/ /\ Supported(f) /\ ~loaded.raised
              /\ all_docs' = all_docs \o loaded.docs
              /\ calls' = Append(calls, FileCall("load", f.name, "ok"))
              /\ fidx' = fidx + 1
           \/ /\ Supported(f) /\ loaded.raised
              /\ calls' = Append(calls, FileCall("load", f.name, "raise"))
              /\ fidx' = Len(data_dir)
              /\ UNCHANGED all_docs
           \/ /\ ~Supported(f)
              /\ calls' = Append(calls, FileCall("skip", f.name, "ok"))
              /\ fidx' = fidx + 1
              /\ UNCHANGED all_docs
    /\ UNCHANGED <<pc, data_dir, disk, build, result>>

\* main.py:152-175  one pass of the loop over the files
IngestFile ==
    /\ pc = "ingest"
    /\ UNCHANGED <<filter_vars, api_vars, frontend_vars>>
    /\ fidx < Len(data_dir)
    /\ LET f == data_dir[fidx + 1]
           loaded == LoadFile(f)
       IN  \/ /\ Supported(f) /\ ~loaded.raised
              /\ all_docs' = all_docs \o loaded.docs
              /\ calls' = Append(calls, FileCall("load", f.name, "ok"))
           \/ /\ Supported(f) /\ loaded.raised
              /\ calls' = Append(calls, FileCall("load", f.name, "raise"))
              /\ UNCHANGED all_docs
           \/ /\ ~Supported(f)
              /\ calls' = Append(calls, FileCall("skip", f.name, "ok"))
              /\ UNCHANGED all_docs
    /\ fidx' = fidx + 1
    /\ UNCHANGED <<pc, data_dir, disk, build, result>>

\* main.py:177-181  after the loop
EndIngest ==
    /\ pc = "ingest"
    /\ UNCHANGED <<filter_vars, api_vars, frontend_vars>>
    /\ fidx = Len(data_dir)
    /\ \/ /\ all_docs = <<>>
          /\ result' = Returned(NoStore)
          /\ pc' = "done"
       \/ /\ all_docs # <<>>
          /\ pc' = "split"
          /\ UNCHANGED result
    /\ UNCHANGED <<disk, ingest, build, calls>>

\* main.py:183-194  chunking; texts and metadatas
Split ==
    /\ pc = "split"
    /\ UNCHANGED <<filter_vars, api_vars, frontend_vars>>
    /\ LET docs == SplitDocuments(all_docs)
       IN  /\ texts' = [j \in 1..Len(docs) |-> docs[j].page_content]
           /\ metadatas' = [j \in 1..Len(docs) |-> docs[j].metadata]
    /\ pc' = "batches"
    /\ UNCHANGED <<disk, ingest, text_batches, metadata_batches, i,
                   vector_store, result, calls>>

\* main.py:196-201  the batches
MakeBatches ==
    /\ pc = "batches"
    /\ UNCHANGED <<filter_vars, api_vars, frontend_vars>>
    /\ text_batches' = batch_generator(texts, batch_size)
    /\ metadata_batches' = batch_generator(metadatas, batch_size)
    /\ vector_store' = NoStore
    /\ i' = 0
    /\ pc' = "batch"
    /\ UNCHANGED <<disk, ingest, texts, metadatas, result, calls>>

\* main.py:203-217  one pass of the batch loop; the embedding call is outside
\* any try block, so its exception leaves get_vector_store
BatchStep ==
    /\ pc = "batch"
    /\ UNCHANGED <<filter_vars, api_vars, frontend_vars>>
    /\ i < Min(Len(text_batches), Len(metadata_batches))
    /\ LET text_batch == text_batches[i + 1]
           metadata_batch == metadata_batches[i + 1]
       IN  \/ /\ i = 0
              /\ Log("from_texts", "ok")
              /\ vector_store' = FromTexts(text_batch, metadata_batch)
              /\ i' = i + 1
              /\ UNCHANGED <<pc, result>>
           \/ /\ i > 0
              /\ Log("add_texts", "ok")
              /\ vector_store' = AddTexts(vector_store, text_batch, metadata_batch)
              /\ i' = i + 1
              /\ UNCHANGED <<pc, result>>
           \/ /\ Log(IF i = 0 THEN "from_texts" ELSE "add_texts", "raise")
              /\ result' = Raised
              /\ pc' = "done"
              /\ UNCHANGED <<i, vector_store>>
    /\ UNCHANGED <<disk, ingest, texts, metadatas, text_batches, metadata_batches>>

\* main.py:203  the batch loop ends
BatchEnd ==
    /\ pc = "batch"
    /\ UNCHANGED <<filter_vars, api_vars, frontend_vars>>
    /\ i = Min(Len(text_batches), Len(metadata_batches))
    /\ pc' = "save"
    /\ UNCHANGED <<disk, ingest, build, result, calls>>

\* SaveLocal without the save_local call: the built index stays in memory
SaveLocal_NotSaved ==
    /\ pc = "save"
    /\ UNCHANGED <<filter_vars, api_vars, frontend_vars>>
    /\ pc' = "archive"
    /\ UNCHANGED <<disk, ingest, build, result, calls>>

\* main.py:219-224  the index is saved to the local folder, if there is one
SaveLocal ==
    /\ pc = "save"
    /\ UNCHANGED <<filter_vars, api_vars, frontend_vars>>
    /\ \/ /\ ~vector_store.none
          /\ local_index' = SavedFolder(vector_store.entries)
          /\ Log("save_local", "ok")
       \/ /\ vector_store.none
          /\ UNCHANGED <<local_index, calls>>
    /\ pc' = "archive"
    /\ UNCHANGED <<s3_object, zip_file, ingest, build, result>>

\* main.py:226-228  shutil.make_archive of the local folder, whatever it holds;
\* it raises when the folder does not exist
MakeArchive ==
    /\ pc = "archive"
    /\ UNCHANGED <<filter_vars, api_vars, frontend_vars>>
    /\ \/ /\ local_index.exists
          /\ zip_file' = ZipOf(local_index)
          /\ Log("make_archive", "ok")
          /\ pc' = "upload"
       \/ /\ ~local_index.exists
          /\ Log("make_archive", "raise")
          /\ pc' = "return"
          /\ UNCHANGED zip_file
    /\ UNCHANGED <<local_index, s3_object, ingest, build, result>>

\* main.py:229-234  upload_file, then os.remove of the archive
UploadFile ==
    /\ pc = "upload"
    /\ UNCHANGED <<filter_vars, api_vars, frontend_vars>>
    /\ \/ /\ Log("upload_file", "ok")
          /\ s3_object' = zip_file
          /\ zip_file' = NoZip
       \/ /\ Log("upload_file", "raise")
          /\ UNCHANGED <<s3_object, zip_file>>
    /\ pc' = "return"
    /\ UNCHANGED <<local_index, ingest, build, result>>

\* main.py:236  return vector_store
Return ==
    /\ pc = "return"
    /\ UNCHANGED <<filter_vars, api_vars, frontend_vars>>
    /\ result' = Returned(vector_store)
    /\ pc' = "done"
    /\ UNCHANGED <<disk, ingest, build, calls>>

\* the process is started again: a new call, on the disk and bucket as they are
Restart ==
    /\ pc = "done"
    /\ UNCHANGED <<filter_vars, api_vars, frontend_vars>>
    /\ pc' = "start"
    /\ result' = Pending
    /\ calls' = <<>>
    /\ data_dir' = <<>> /\ fidx' = 0 /\ all_docs' = <<>>
    /\ texts' = <<>> /\ metadatas' = <<>>
    /\ text_batches' = <<>> /\ metadata_batches' = <<>>
    /\ i' = 0 /\ vector_store' = NoStore
    /\ UNCHANGED disk

\* the filter script is not running
FilterIdle ==
    /\ csv_in = [n |-> 0, file |-> "", column |-> "", rows |-> <<>>]
    /\ csv_out = [written |-> FALSE, file |-> "", rows |-> <<>>]

\* the API process is not running
ApiIdle ==
    /\ api_pc = "off"
    /\ api_vector_store = NoStore
    /\ rag_chain = [retriever |-> NoStore, k |-> 0]
    /\ api_loads = 0
    /\ requests = <<>>
    /\ invocations = <<>>

\* no HTTP exchange yet
NoResponse == [kind |-> "none", status |-> 0,
               body |-> [json |-> FALSE, object |-> FALSE, has_answer |-> FALSE,
                         answer |-> <<>>],
               error |-> ""]

\* the chat front-end is not running
FrontendIdle ==
    /\ fe_pc = "off"
    /\ messages = <<>>
    /\ prompt = <<>>
    /\ response = NoResponse
    /\ answer = <<>>
    /\ exchanges = <<>>

OthersIdle == FilterIdle /\ ApiIdle /\ FrontendIdle

\* what the disk and the bucket can hold before the first call
InitialFolders == {NoFolder, CorruptFolder, SavedFolder(OldEntries)}

InitialObjects ==
    {NoZip, BadZip, ZipOf(CorruptFolder), ZipOf(SavedFolder(OldEntries))}

Init ==
    /\ pc = "start"
    /\ OthersIdle
    /\ local_index \in InitialFolders
    /\ s3_object \in InitialObjects
    /\ zip_file = NoZip
    /\ data_dir = <<>> /\ fidx = 0 /\ all_docs = <<>>
    /\ texts = <<>> /\ metadatas = <<>>
    /\ text_batches = <<>> /\ metadata_batches = <<>>
    /\ i = 0 /\ vector_store = NoStore
    /\ result = Pending
    /\ calls = <<>>

Next ==
    \/ LoadLocal \/ S3Download \/ S3Unzip \/ S3Remove \/ S3Load
    \/ Glob \/ IngestFile \/ EndIngest \/ Split \/ MakeBatches
    \/ BatchStep \/ BatchEnd \/ SaveLocal \/ MakeArchive \/ UploadFile
    \/ Return \/ Restart

Spec == Init /\ [][Next]_vars

----------------------------------------------------------------------------
(* Properties of get_vector_store *)

Positions(name, outcome) ==
    {k \in 1..Len(calls) : calls[k] = Call(name, outcome)}

Called(name) == \E k \in 1..Len(calls) : calls[k].name = name

\* the calls a run makes only on the remote path
RemoteCalls == {"download_file", "extractall"}

\* the calls a run makes only while rebuilding
RebuildCalls == {"glob", "from_texts", "add_texts", "save_local",
                 "make_archive", "upload_file"}

\* the local folder existed and its load succeeded
LocalLoaded ==
    /\ Len(calls) >= 2
    /\ calls[1] = Call("exists", "true")
    /\ calls[2] = Call("load_local", "ok")

\* the local folder was absent, or its load raised: the calls of that prefix
LocalFailedPrefix ==
    IF calls # <<>> /\ calls[1] = Call("exists", "false") THEN 1
    ELSE IF Len(calls) >= 2 /\ calls[1] = Call("exists", "true")
            /\ calls[2] = Call("load_local", "raise") THEN 2
    ELSE 0

\* position k holds a failed step of the remote block (download, unzip, load)
RemoteFailedAt(k) ==
    /\ k > LocalFailedPrefix
    /\ calls[k].outcome = "raise"
    /\ calls[k].name \in {"download_file", "extractall", "load_local"}

\* C1: the load precedence is local, then remote, then rebuild.  When the
\* local folder exists and loads, that index is returned and the run makes
\* no remote call and no rebuild call; a download is attempted only right
\* after the local folder was found absent or its load raised; the rebuild
\* starts only right after a step of the remote block raised.
C1_Precedence ==
    /\ LocalLoaded =>
          /\ Len(calls) = 2
          /\ pc = "done"
          /\ result = Returned(Store(local_index.entries))
    /\ \A k \in 1..Len(calls) :
          /\ calls[k].name = "download_file" =>
                LocalFailedPrefix > 0 /\ k = LocalFailedPrefix + 1
          /\ calls[k].name = "glob" =>
                /\ Called("download_file")
                /\ RemoteFailedAt(k - 1)
    /\ pc \in {"rebuild", "ingest", "split", "batches", "batch", "save",
               "archive", "upload", "return"} => Called("download_file")
    /\ pc \in {"s3", "unzip", "remove", "s3load"} => LocalFailedPrefix > 0

\* C1 witness: a run whose local load raised, whose download and unzip
\* succeeded, whose remote load raised, and which then began the rebuild
C1_Witness ==
    /\ Len(calls) = 6
    /\ calls[2] = Call("load_local", "raise")
    /\ calls[3] = Call("download_file", "ok")
    /\ calls[4] = Call("extractall", "ok")
    /\ calls[5] = Call("load_local", "raise")
    /\ calls[6].name = "glob"
    /\ pc = "ingest"

\* C2: a failure of the local load, or of the remote download, unzip or
\* load, never leaves get_vector_store: the run goes on with the next
\* fallback step (the download after a local failure, the rebuild after a
\* remote failure), and the only calls whose failure the caller sees are
\* the embedding calls of the rebuild.
C2_FailuresFallThrough ==
    /\ \A k \in 1..Len(calls) :
          (calls[k].outcome = "raise"
             /\ calls[k].name \in {"load_local", "download_file", "extractall"}) =>
             IF k = Len(calls)
             THEN /\ result = Pending
                  /\ pc = (IF k = LocalFailedPrefix THEN "s3" ELSE "rebuild")
             ELSE calls[k + 1].name =
                     (IF k = LocalFailedPrefix THEN "download_file" ELSE "glob")
    /\ result.kind = "raise" =>
          /\ calls[Len(calls)].outcome = "raise"
          /\ calls[Len(calls)].name \in {"from_texts", "add_texts"}

\* C2 witness: the local load and the download both raised and the run is
\* in the ingestion loop
C2_Witness ==
    /\ Len(calls) >= 4
    /\ calls[2] = Call("load_local", "raise")
    /\ calls[3] = Call("download_file", "raise")
    /\ pc = "ingest"
    /\ fidx > 0

RECURSIVE LoadedDocs(_)
\* the documents of the files whose loader returned, in listing order
LoadedDocs(files) ==
    IF files = <<>> THEN <<>>
    ELSE (IF Supported(Head(files)) /\ ~LoadFile(Head(files)).raised
          THEN LoadFile(Head(files)).docs ELSE <<>>)
         \o LoadedDocs(Tail(files))

\* the calls of the ingestion loop
IngestCalls == SelectSeq(calls, LAMBDA c : c.name \in {"load", "skip"})

\* C4: the ingestion loop handles the files independently.  After fidx
\* passes every file of the listing so far has been handled once, in order,
\* a file whose loader raised, an unsupported file or an unrecognised CSV
\* has contributed nothing, and all_docs holds every document of every file
\* whose loader returned; the loop ends only when every file was handled.
C4_FilesIndependent ==
    pc \in {"ingest", "split", "batches", "batch", "save", "archive",
            "upload", "return"} =>
       /\ pc # "ingest" => fidx = Len(data_dir)
       /\ all_docs = LoadedDocs(SubSeq(data_dir, 1, fidx))
       /\ Len(IngestCalls) = fidx
       /\ \A k \in 1..fidx :
             LET f == data_dir[k]
             IN  IngestCalls[k] =
                    IF ~Supported(f) THEN FileCall("skip", f.name, "ok")
                    ELSE IF LoadFile(f).raised THEN FileCall("load", f.name, "raise")
                    ELSE FileCall("load", f.name, "ok")

\* C4 witness: the loop is over; the first file's loader raised and the
\* second file's documents are in all_docs
C4_Witness ==
    /\ pc = "split"
    /\ Len(data_dir) = 2
    /\ LoadFile(data_dir[1]).raised
    /\ LoadFile(data_dir[2]).docs # <<>>
    /\ all_docs = LoadFile(data_dir[2]).docs

\* C6: on the rebuild path an archive is uploaded only after the index built
\* in this run was saved to the local folder, so what the bucket holds after
\* an upload is the archive of the index just built; and a failure of
\* archiving or uploading does not keep the built index from being returned.
C6_UploadAfterSave ==
    /\ \A k \in Positions("upload_file", "ok") :
          /\ \E j \in 1..(k - 1) : calls[j] = Call("save_local", "ok")
          /\ k = Len(calls) =>
                /\ ~vector_store.none
                /\ s3_object = ZipOf(SavedFolder(vector_store.entries))
    /\ (pc = "done" /\ result.kind = "return"
          /\ (Positions("make_archive", "raise") # {}
                \/ Positions("upload_file", "raise") # {})) =>
          result = Returned(vector_store)

\* the call returned an index, and not from the local copy it started with
ReturnedIndexOffLocal ==
    /\ pc = "done"
    /\ result.kind = "return"
    /\ ~result.value.none
    /\ Called("download_file")

\* the local folder exists, loads, and holds the entries of the given index
LocalCopyOf(store) ==
    /\ local_index.exists
    /\ local_index.loadable
    /\ local_index.entries = store.entries

\* C11: whenever get_vector_store returns an index by the remote path or by
\* the rebuild path, the local index folder exists afterwards, is loadable
\* and holds that index; the folder is as the call left it when the process
\* starts again; and a call that starts with an existing, loadable local
\* folder returns the index of that folder in its first step, having checked
\* the folder and loaded it and made no other call (no download, no
\* embedding), and leaves the disk and the bucket as they were.
C11_LocalCopyServesNextStartup ==
    /\ [](ReturnedIndexOffLocal => LocalCopyOf(result.value))
    /\ [][(pc = "done" /\ pc' = "start") =>
             /\ UNCHANGED disk
             /\ calls' = <<>>
             /\ result' = Pending]_vars
    /\ [][(pc = "start" /\ local_index.exists /\ local_index.loadable) =>
             /\ pc' = "done"
             /\ result' = Returned(Store(local_index.entries))
             /\ calls' = <<Call("exists", "true"), Call("load_local", "ok")>>
             /\ UNCHANGED disk]_vars

\* C11 witness: a call has returned, from the local copy and with no other
\* call, an index that an earlier call built from the data directory (its
\* entries are not the ones any folder or archive held at the beginning)
C11_Witness ==
    /\ pc = "done"
    /\ LocalLoaded
    /\ Len(calls) = 2
    /\ result.kind = "return"
    /\ result.value.entries # <<>>
    /\ result.value.entries # OldEntries
    /\ LocalCopyOf(result.value)

----------------------------------------------------------------------------
(* The batched build on chunk lists of every length up to MaxChunks *)

\* a PDF whose pages give n chunks in all (one empty page when n = 0)
ChunkedPdf(n) ==
    File("Academic_Calendar_Spring_2026.pdf", FALSE,
         IF n = 0 THEN <<0>> ELSE [p \in 1..n |-> 1], <<>>, <<>>)

\* a rebuild after the ingestion loop has loaded one such PDF
InitBatch ==
    /\ pc = "split"
    /\ OthersIdle
    /\ local_index = NoFolder
    /\ s3_object = NoZip
    /\ zip_file = NoZip
    /\ \E n \in 0..MaxChunks :
          /\ data_dir = <<ChunkedPdf(n)>>
          /\ all_docs = LoadFile(ChunkedPdf(n)).docs
    /\ fidx = 1
    /\ texts = <<>> /\ metadatas = <<>>
    /\ text_batches = <<>> /\ metadata_batches = <<>>
    /\ i = 0 /\ vector_store = NoStore
    /\ result = Pending
    /\ calls = <<Call("exists", "false"), Call("download_file", "raise"),
                 Call("glob", "ok"),
                 FileCall("load", "Academic_Calendar_Spring_2026.pdf", "ok")>>

NextBatch ==
    \/ Split \/ MakeBatches \/ BatchStep \/ BatchEnd
    \/ SaveLocal \/ MakeArchive \/ UploadFile \/ Return

SpecBatch == InitBatch /\ [][NextBatch]_vars

\* the embedding calls made so far
EmbedCalls == SelectSeq(calls, LAMBDA c : c.name \in {"from_texts", "add_texts"})

\* C5: the index is built in batches of 100 chunks.  The batches are
\* consecutive slices whose concatenation is the chunk list, each but
\* possibly the last has exactly 100 chunks and none is empty; after j
\* passes of the loop the index holds exactly the chunks of the first j
\* batches, once each, in order, each text with its own metadata (that of
\* the document it was cut from); the first batch goes in by from_texts and
\* the later ones by add_texts; once the loop is over every chunk is in.
C5_Batches ==
    pc \in {"batch", "save", "archive", "upload", "return", "done"} =>
       LET n == Len(texts)
           nb == Len(text_batches)
           done == Min(i * batch_size, n)
       IN  /\ Len(metadatas) = n
           /\ Len(metadata_batches) = nb
           /\ Concat(text_batches) = texts
           /\ Concat(metadata_batches) = metadatas
           /\ \A b \in 1..nb :
                 /\ Len(text_batches[b]) >= 1
                 /\ Len(text_batches[b]) <= batch_size
                 /\ b < nb => Len(text_batches[b]) = batch_size
                 /\ Len(metadata_batches[b]) = Len(text_batches[b])
                 /\ text_batches[b] =
                       SubSeq(texts, (b - 1) * batch_size + 1,
                              (b - 1) * batch_size + Len(text_batches[b]))
           /\ \A j \in 1..n :
                 \E d \in 1..Len(all_docs) :
                    /\ all_docs[d].page_content = texts[j].of
                    /\ all_docs[d].metadata = metadatas[j]
           /\ i <= nb
           /\ vector_store.none <=> i = 0
           /\ vector_store.entries =
                 [j \in 1..done |-> [text |-> texts[j], metadata |-> metadatas[j]]]
           /\ Len(EmbedCalls) \in {i, i + 1}
           /\ \A k \in 1..Len(EmbedCalls) :
                 /\ EmbedCalls[k].name = (IF k = 1 THEN "from_texts" ELSE "add_texts")
                 /\ EmbedCalls[k].outcome = (IF k <= i THEN "ok" ELSE "raise")
           /\ pc \in {"save", "archive", "upload", "return"} =>
                 /\ i = nb
                 /\ done = n
                 /\ Len(EmbedCalls) = nb

\* C5 witness: 201 chunks went in as three batches of 100, 100 and 1
C5_Witness ==
    /\ pc = "save"
    /\ Len(texts) = 2 * batch_size + 1
    /\ Len(text_batches) = 3
    /\ Len(text_batches[3]) = 1
    /\ Len(vector_store.entries) = Len(texts)

----------------------------------------------------------------------------
(* The CSV adapters on files of every shape up to MaxRows lines *)

\* a grade-history header without the optional second instructor
GradeHeaderOneInstructor ==
    <<"Subject", "Catalog Nbr", "Section ", "Instructor 1", " A", "B+", "W", "Total">>

\* a row in which no grade was given; the line after it may be blank
GradeRowNoGrades == <<"CS", "6V81", "004", "Diaz", "", "", "", "", "0">>

\* a coursebook header that lacks the location column
CoursebookHeaderNoLocation ==
    <<"course_prefix", "course_number", "section", "class_number", "title",
      "instructor_s", "days", "times_12h", "enrolled_status",
      "enrolled_current", "enrolled_max">>

GradeRowSamples ==
    {GradeRowFull, GradeRowShort, GradeRowLong, GradeRowNoGrades, <<>>}

CoursebookRowSamples ==
    {CoursebookRowFull, CoursebookRowShort, CoursebookRowLong, <<>>}

RowLists(samples) == UNION {[1..n -> samples] : n \in 0..MaxRows}

\* the CSV files the ingestion loop is run on
CsvFiles ==
    {File("filtered_Fall 2023.csv", FALSE, <<>>, h, rows) :
        h \in {GradeHeader, GradeHeaderOneInstructor},
        rows \in RowLists(GradeRowSamples)}
    \cup {File("filtered_Spring 2022.csv", FALSE, <<>>, Spring2022Header, rows) :
            rows \in RowLists(GradeRowSamples \ {GradeRowLong})}
    \cup {File("2026 coursebook.csv", FALSE, <<>>, h, rows) :
            h \in {CoursebookHeader, CoursebookHeaderNoLocation},
            rows \in RowLists(CoursebookRowSamples)}
    \cup {File("Fall 2023.csv", FALSE, <<>>, GradeHeader, <<GradeRowFull>>)}

\* a rebuild whose data directory holds one CSV file, before the loop
InitCsv ==
    /\ pc = "ingest"
    /\ OthersIdle
    /\ local_index = NoFolder
    /\ s3_object = NoZip
    /\ zip_file = NoZip
    /\ \E f \in CsvFiles : data_dir = <<f>>
    /\ fidx = 0
    /\ all_docs = <<>>
    /\ texts = <<>> /\ metadatas = <<>>
    /\ text_batches = <<>> /\ metadata_batches = <<>>
    /\ i = 0 /\ vector_store = NoStore
    /\ result = Pending
    /\ calls = <<Call("exists", "false"), Call("download_file", "raise"),
                 Call("glob", "ok")>>

NextCsv == IngestFile \/ EndIngest

SpecCsv == InitCsv /\ [][NextCsv]_vars

\* the loop has handled the CSV file f with an adapter
CsvHandled(f) ==
    /\ pc = "ingest"
    /\ fidx = 1
    /\ f = data_dir[1]
    /\ Supported(f)

IsGradeHistory(f) ==
    ~NameContains(f.name, "coursebook") /\ NameContains(f.name, "filtered_")

\* the cell of a row under a column, None when the row or the header lacks it
Cell(header, cells, column) ==
    IF \E j \in 1..Len(header) : Strip(header[j]) = column /\ j <= Len(cells)
    THEN cells[CHOOSE j \in 1..Len(header) : Strip(header[j]) = column]
    ELSE NoneVal

\* the sentence names grade column k
ListsGrade(page_content, k) ==
    \E q \in 1..(Len(page_content) - 2) :
       /\ page_content[q] = k
       /\ page_content[q + 1] = ": "

\* C3: for both CSV adapters a row with a malformed or missing field still
\* yields a document (with placeholder text for the field), and no such row
\* costs the file its other rows: once the loop has handled a CSV file,
\* all_docs holds one document for every data row of the file.
C3_EveryRowYieldsDocument ==
    \A f \in CsvFiles :
       CsvHandled(f) =>
          LET data == DataRows(f.rows)
          IN  /\ Len(all_docs) = Len(data)
              /\ \A r \in 1..Len(data) :
                    /\ all_docs[r].metadata.source = f.name
                    /\ all_docs[r].metadata.row = r - 1
                    /\ \A q \in 1..Len(all_docs[r].page_content) :
                          all_docs[r].page_content[q] # NoneVal

\* C10: each CSV adapter emits exactly one document per data row, in row
\* order; document i has source = the file's name, row = i (from 0) and
\* course = subject/prefix, a space, course number; the grade-history adapter
\* also records professor = the row's 'Instructor 1' and names in its
\* sentence exactly the grade columns whose value is not empty.
C10_OneDocumentPerRow ==
    \A f \in CsvFiles :
       CsvHandled(f) =>
          LET data == DataRows(f.rows)
              subject == IF IsGradeHistory(f) THEN "Subject" ELSE "course_prefix"
              number == IF IsGradeHistory(f) THEN "Catalog Nbr" ELSE "course_number"
          IN  /\ Len(all_docs) = Len(data)
              /\ \A r \in 1..Len(data) :
                    LET d == all_docs[r]
                    IN  /\ d.metadata.source = f.name
                        /\ d.metadata.row = r - 1
                        /\ d.metadata.course =
                              <<Str(Cell(f.header, data[r], subject)), " ",
                                Str(Cell(f.header, data[r], number))>>
                        /\ IsGradeHistory(f) =>
                              /\ d.metadata.professor =
                                    Cell(f.header, data[r], "Instructor 1")
                              /\ \A k \in GradeColumns :
                                    ListsGrade(d.page_content, k)
                                       <=> Truthy(Cell(f.header, data[r], k))

\* what the adapters do keep of C3 and C10: whenever the adapter returns,
\* the file's rows are all there, as C10 describes them
C10_HoldsWhenAdapterReturns ==
    \A f \in CsvFiles :
       (CsvHandled(f) /\ calls[Len(calls)].outcome = "ok") =>
          LET data == DataRows(f.rows)
              subject == IF IsGradeHistory(f) THEN "Subject" ELSE "course_prefix"
              number == IF IsGradeHistory(f) THEN "Catalog Nbr" ELSE "course_number"
          IN  /\ Len(all_docs) = Len(data)
              /\ \A r \in 1..Len(data) :
                    LET d == all_docs[r]
                    IN  /\ d.metadata.source = f.name
                        /\ d.metadata.row = r - 1
                        /\ d.metadata.course =
                              <<Str(Cell(f.header, data[r], subject)), " ",
                                Str(Cell(f.header, data[r], number))>>
                        /\ \A q \in 1..Len(d.page_content) :
                              d.page_content[q] # NoneVal
                        /\ IsGradeHistory(f) =>
                              /\ d.metadata.professor =
                                    Cell(f.header, data[r], "Instructor 1")
                              /\ \A k \in GradeColumns :
                                    ListsGrade(d.page_content, k)
                                       <=> Truthy(Cell(f.header, data[r], k))

----------------------------------------------------------------------------
(* filter_data.py *)

\* get_vector_store is not running
IndexIdle ==
    /\ pc = "off"
    /\ local_index = NoFolder
    /\ s3_object = NoZip
    /\ zip_file = NoZip
    /\ data_dir = <<>> /\ fidx = 0 /\ all_docs = <<>>
    /\ texts = <<>> /\ metadatas = <<>>
    /\ text_batches = <<>> /\ metadata_batches = <<>>
    /\ i = 0 /\ vector_store = NoStore
    /\ result = Pending
    /\ calls = <<>>

filenames ==
    <<"Fall 2022.csv", "Fall 2023.csv", "Fall 2024.csv",
      "Spring 2022.csv", "Spring 2023.csv", "Spring 2024.csv">>

\* f"filtered_{file}"
FilteredName(file) ==
    CASE file = "Fall 2022.csv" -> "filtered_Fall 2022.csv"
      [] file = "Fall 2023.csv" -> "filtered_Fall 2023.csv"
      [] file = "Fall 2024.csv" -> "filtered_Fall 2024.csv"
      [] file = "Spring 2022.csv" -> "filtered_Spring 2022.csv"
      [] file = "Spring 2023.csv" -> "filtered_Spring 2023.csv"
      [] file = "Spring 2024.csv" -> "filtered_Spring 2024.csv"

\* the course-number column the function reads for this file
CatalogColumn(file) ==
    IF file # "Spring 2022.csv" THEN "Catalog Nbr" ELSE "Catalog Number"

\* a float: not-a-number, or a value
NaN == [nan |-> TRUE, value |-> 0]

Number(v) == [nan |-> FALSE, value |-> v]

\* pd.to_numeric(cell, errors='coerce') on the course numbers of the model
ToNumeric(cell) ==
    CASE cell = "5999" -> Number(5999)
      [] cell = "6000" -> Number(6000)
      [] cell = "6301" -> Number(6301)
      [] cell = "7000" -> Number(7000)
      [] cell = "7001" -> Number(7001)
      [] OTHER -> NaN

\* Series.between with both ends excluded
Between_exclusive(x, left, right) ==
    ~x.nan /\ left < x.value /\ x.value < right

\* Series.between(left, right): both ends included, NaN is never between
Between(x, left, right) ==
    ~x.nan /\ left <= x.value /\ x.value <= right

SubjectSamples == {"CS", "EE"}

CatalogSamples == {"5999", "6000", "6301", "7000", "7001", "6V81"}

FilterRow(column, subject, catalog) ==
    [c \in {"Subject", column} |-> IF c = "Subject" THEN subject ELSE catalog]

\* filter_data.py:28-30  what the n-th pass of the loop over filenames can
\* find in data/
FilterInputs(n) ==
    LET file == filenames[n]
        column == CatalogColumn(file)
        rowset == {FilterRow(column, sub, cat) :
                      sub \in SubjectSamples, cat \in CatalogSamples}
    IN  {[n |-> n, file |-> file, column |-> column, rows |-> rows] :
            rows \in UNION {[1..m -> rowset] : m \in 0..MaxFilterRows}}

\* the rows to_csv writes: the selected rows, their course number as converted
FilteredRows(file, rows) ==
    LET column == CatalogColumn(file)
        converted == [k \in 1..Len(rows) |->
                         [rows[k] EXCEPT ![column] = ToNumeric(rows[k][column])]]
    IN  SelectSeq(converted,
                  LAMBDA row : row["Subject"] = "CS"
                                 /\ Between(row[column], 6000, 7000))

\* filter_data.py:6-26  filter_data_from_csv(file)
FilterDataFromCsv ==
    /\ ~csv_out.written
    /\ csv_in.n > 0
    /\ csv_out' = [written |-> TRUE,
                   file |-> FilteredName(csv_in.file),
                   rows |-> FilteredRows(csv_in.file, csv_in.rows)]
    /\ UNCHANGED <<csv_in, index_vars, api_vars, frontend_vars>>

InitFilter ==
    /\ IndexIdle
    /\ ApiIdle
    /\ FrontendIdle
    /\ \E n \in 1..Len(filenames) : csv_in \in FilterInputs(n)
    /\ csv_out = [written |-> FALSE, file |-> "", rows |-> <<>>]

NextFilter == FilterDataFromCsv

SpecFilter == InitFilter /\ [][NextFilter]_vars

\* the positions of the input rows the claim selects
Selected ==
    {k \in 1..Len(csv_in.rows) :
        /\ csv_in.rows[k]["Subject"] = "CS"
        /\ csv_in.rows[k][csv_in.column] \in {"6000", "6301", "7000"}}

\* the m-th selected position
SelectedAt(m) ==
    CHOOSE k \in Selected : Cardinality({j \in Selected : j <= k}) = m

\* C7: filter_data_from_csv writes exactly the input rows whose Subject is
\* 'CS' and whose course number, as a number, lies in [6000, 7000]: the
\* written rows are the selected rows, once each and in input order; rows
\* with 6000 or 7000 are in, rows with 5999, 7001 or a non-numeric course
\* number, and rows of another subject, are out.
C7_FilterExact ==
    csv_out.written =>
       /\ csv_out.file = FilteredName(csv_in.file)
       /\ Len(csv_out.rows) = Cardinality(Selected)
       /\ \A m \in 1..Len(csv_out.rows) :
             LET src == csv_in.rows[SelectedAt(m)]
                 row == csv_out.rows[m]
             IN  /\ row["Subject"] = src["Subject"]
                 /\ row[csv_in.column] = ToNumeric(src[csv_in.column])
       /\ \A m \in 1..Len(csv_out.rows) :
             LET x == csv_out.rows[m][csv_in.column]
             IN  /\ csv_out.rows[m]["Subject"] = "CS"
                 /\ ~x.nan
                 /\ x.value \notin {5999, 7001}
                 /\ 6000 <= x.value /\ x.value <= 7000
       /\ \A k \in 1..Len(csv_in.rows) :
             (csv_in.rows[k]["Subject"] = "CS"
                /\ csv_in.rows[k][csv_in.column] \in {"6000", "7000"}) =>
                \E m \in 1..Len(csv_out.rows) :
                   csv_out.rows[m][csv_in.column].value
                      = ToNumeric(csv_in.rows[k][csv_in.column]).value

\* C7 witness: Spring 2022.csv held a CS 7000 row and a CS 7001 row; only
\* the first was written
C7_Witness ==
    /\ csv_out.written
    /\ csv_in.file = "Spring 2022.csv"
    /\ csv_in.rows = <<FilterRow("Catalog Number", "CS", "7000"),
                       FilterRow("Catalog Number", "CS", "7001")>>
    /\ Len(csv_out.rows) = 1
    /\ csv_out.rows[1]["Catalog Number"] = Number(7000)

----------------------------------------------------------------------------
(* api.py *)

SampleEntry(n) ==
    [text |-> [of |-> <<"text of ", "Track info.docx">>, window |-> n],
     metadata |-> [source |-> "Track info.docx"]]

\* what main.get_vector_store() can hand to the module body: a loaded or
\* built index, None (no documents), or an exception of the rebuild
StartupResults ==
    {Returned(Store(OldEntries)),
     Returned(Store([n \in 1..(top_k + 1) |-> SampleEntry(n)])),
     Returned(NoStore),
     Raised}

Questions == {"What track options are available?", "Who teaches CS 6375?"}

\* main.py:238-307  create_rag_chain(vector_store)
create_rag_chain(store) == [retriever |-> store, k |-> top_k]

\* the retriever: the k chunks nearest the question (the index's own order
\* stands for the order by similarity)
Retrieve(chain, question) ==
    SubSeq(chain.retriever.entries, 1, Min(chain.k, Len(chain.retriever.entries)))

\* rag_chain.invoke(question) with a backend that answers by a fixed rule:
\* the prompt is the retrieved context and the question, the answer is the
\* model's text for that prompt
Invoke(chain, question) ==
    <<"answer to ", question, " from ", ToString(Len(Retrieve(chain, question))),
      " chunks of ", ToString(Len(chain.retriever.entries))>>

\* api.py:5-7  the module body: the index is loaded and the chain built;
\* create_rag_chain(None) raises, and so the import fails
Startup ==
    /\ api_pc = "import"
    /\ api_loads' = api_loads + 1
    /\ \E r \in StartupResults :
          \/ /\ r.kind = "return" /\ ~r.value.none
             /\ api_vector_store' = r.value
             /\ rag_chain' = create_rag_chain(r.value)
             /\ api_pc' = "serving"
          \/ /\ r.kind = "raise" \/ r.value.none
             /\ api_pc' = "failed"
             /\ UNCHANGED <<api_vector_store, rag_chain>>
    /\ UNCHANGED <<requests, invocations, index_vars, filter_vars,
                   frontend_vars>>

\* api.py:15-18  a POST /query arrives with a question
Receive ==
    /\ api_pc = "serving"
    /\ Len(requests) < MaxRequests
    /\ \E q \in Questions :
          requests' = Append(requests,
                             [question |-> q, state |-> "received",
                              answer |-> <<>>, status |-> 0,
                              body |-> [answer |-> <<>>]])
    /\ UNCHANGED <<api_pc, api_vector_store, rag_chain, api_loads, invocations,
                   index_vars, filter_vars,
                   frontend_vars>>

\* InvokeChain calling main.get_vector_store() again for every request
InvokeChain_Reloads ==
    /\ api_pc = "serving"
    /\ \E id \in 1..Len(requests) :
          /\ requests[id].state = "received"
          /\ LET q == requests[id].question
             IN  /\ invocations' = Append(invocations,
                       [request |-> id, question |-> q, outcome |-> "return",
                        returned |-> Invoke(rag_chain, q)])
                 /\ requests' = [requests EXCEPT ![id].state = "invoked",
                                                 ![id].answer = Invoke(rag_chain, q)]
    /\ api_loads' = api_loads + 1
    /\ UNCHANGED <<api_pc, api_vector_store, rag_chain, index_vars, filter_vars,
                   frontend_vars>>

\* api.py:19  answer = rag_chain.invoke(request.question); an exception of
\* the chain leaves the handler and the framework answers 500
InvokeChain ==
    /\ api_pc = "serving"
    /\ \E id \in 1..Len(requests) :
          /\ requests[id].state = "received"
          /\ LET q == requests[id].question
             IN  \/ /\ invocations' = Append(invocations,
                          [request |-> id, question |-> q, outcome |-> "return",
                           returned |-> Invoke(rag_chain, q)])
                    /\ requests' = [requests EXCEPT ![id].state = "invoked",
                                                    ![id].answer = Invoke(rag_chain, q)]
                 \/ /\ invocations' = Append(invocations,
                          [request |-> id, question |-> q, outcome |-> "raise",
                           returned |-> <<>>])
                    /\ requests' = [requests EXCEPT ![id].state = "error",
                                                    ![id].status = 500]
    /\ UNCHANGED <<api_pc, api_vector_store, rag_chain, api_loads,
                   index_vars, filter_vars,
                   frontend_vars>>

\* Respond answering from a variable shared by all requests: the answer of
\* the latest invocation
Respond_LatestAnswer ==
    /\ api_pc = "serving"
    /\ \E id \in 1..Len(requests) :
          /\ requests[id].state = "invoked"
          /\ requests' = [requests EXCEPT
                ![id].state = "responded",
                ![id].status = 200,
                ![id].body = [answer |-> invocations[Len(invocations)].returned]]
    /\ UNCHANGED <<api_pc, api_vector_store, rag_chain, api_loads, invocations,
                   index_vars, filter_vars,
                   frontend_vars>>

\* api.py:20-21  return {"answer": answer}
Respond ==
    /\ api_pc = "serving"
    /\ \E id \in 1..Len(requests) :
          /\ requests[id].state = "invoked"
          /\ requests' = [requests EXCEPT
                ![id].state = "responded",
                ![id].status = 200,
                ![id].body = [answer |-> requests[id].answer]]
    /\ UNCHANGED <<api_pc, api_vector_store, rag_chain, api_loads, invocations,
                   index_vars, filter_vars,
                   frontend_vars>>

InitApi ==
    /\ IndexIdle
    /\ FilterIdle
    /\ FrontendIdle
    /\ api_pc = "import"
    /\ api_vector_store = NoStore
    /\ rag_chain = [retriever |-> NoStore, k |-> 0]
    /\ api_loads = 0
    /\ requests = <<>>
    /\ invocations = <<>>

NextApi == Startup \/ Receive \/ InvokeChain \/ Respond

SpecApi == InitApi /\ [][NextApi]_vars

\* the invocations made for request id
InvocationsOf(id) == {k \in 1..Len(invocations) : invocations[k].request = id}

\* C8: for every /query request the endpoint invokes the chain exactly once,
\* with exactly the request's question, and the JSON it returns has the one
\* field answer, whose value is exactly what that invocation returned.
C8_RoundTrip ==
    \A id \in 1..Len(requests) :
       LET r == requests[id]
       IN  /\ Cardinality(InvocationsOf(id)) =
                 (IF r.state = "received" THEN 0 ELSE 1)
           /\ \A k \in InvocationsOf(id) :
                 /\ invocations[k].question = r.question
                 /\ r.state \in {"invoked", "responded"} <=>
                       invocations[k].outcome = "return"
                 /\ r.state = "responded" =>
                       /\ r.status = 200
                       /\ r.body = [answer |-> invocations[k].returned]

\* C8 witness: two requests with different questions were invoked in the
\* order of arrival and answered in the opposite order
C8_Witness ==
    /\ Len(requests) = 2
    /\ requests[1].question # requests[2].question
    /\ requests[1].state = "responded"
    /\ requests[2].state = "responded"
    /\ invocations[1].request = 1
    /\ invocations[2].request = 2

\* two requests with the same question got the same answer
SameQuestionSameAnswer ==
    \A a, b \in 1..Len(requests) :
       (requests[a].state = "responded" /\ requests[b].state = "responded"
          /\ requests[a].question = requests[b].question) =>
          requests[a].body = requests[b].body

\* C9: the API process loads the index exactly once, at startup, and no
\* request changes the index, the chain, the disk or the bucket; nothing
\* of an earlier request is kept, so the answer to a request is decided by
\* its question alone.
C9_LoadedOnce ==
    /\ [][api_pc = "serving" =>
             /\ api_pc' = "serving"
             /\ UNCHANGED <<api_vector_store, rag_chain, api_loads, disk>>]_vars
    /\ [](api_pc = "serving" =>
             /\ api_loads = 1
             /\ ~api_vector_store.none
             /\ rag_chain = create_rag_chain(api_vector_store)
             /\ SameQuestionSameAnswer
             /\ \A id \in 1..Len(requests) :
                   requests[id].state = "responded" =>
                      requests[id].body =
                         [answer |-> Invoke(rag_chain, requests[id].question)])

\* C9 witness: the same question was answered twice, with another question
\* answered in between, and the index was loaded once
C9_Witness ==
    /\ Len(requests) = 3
    /\ \A id \in 1..3 : requests[id].state = "responded"
    /\ requests[1].question = requests[3].question
    /\ requests[1].question # requests[2].question
    /\ api_loads = 1

----------------------------------------------------------------------------
(* frontend.py *)

MaxPrompts == 2

\* a response body: whether it parses as JSON, whether the JSON value is an
\* object, whether the object has the key "answer", and that value
Body(json, object, has_answer, text) ==
    [json |-> json, object |-> object, has_answer |-> has_answer, answer |-> text]

HttpResponse(status, body) ==
    [kind |-> "response", status |-> status, body |-> body, error |-> ""]

\* requests.post raised a requests.exceptions.RequestException
RequestRaised(error) ==
    [kind |-> "exception", status |-> 0, body |-> Body(FALSE, FALSE, FALSE, <<>>),
     error |-> error]

\* api.py:20-21  what the endpoint answers to a question: {"answer": answer}
EndpointAnswer(question) ==
    HttpResponse(200, Body(TRUE, TRUE, TRUE,
                           Invoke(create_rag_chain(Store(OldEntries)), question)))

\* what requests.post(API_URL, json=payload, timeout=60) can come back with:
\* the endpoint's answer; a 500 of the endpoint or a 503 of the load
\* balancer, with a body that is not JSON; a 200 whose body is a JSON object
\* without "answer", a JSON array, or not JSON at all; a timeout or a
\* connection error
PostOutcomes(question) ==
    {EndpointAnswer(question),
     HttpResponse(500, Body(FALSE, FALSE, FALSE, <<>>)),
     HttpResponse(503, Body(FALSE, FALSE, FALSE, <<>>)),
     HttpResponse(200, Body(TRUE, TRUE, FALSE, <<>>)),
     HttpResponse(200, Body(TRUE, FALSE, FALSE, <<>>)),
     HttpResponse(200, Body(FALSE, FALSE, FALSE, <<>>)),
     RequestRaised("Read timed out. (read timeout=60)"),
     RequestRaised("Connection refused")}

Message(role, content) == [role |-> role, content |-> content]

\* frontend.py:47  the default of data.get
UnexpectedResponse == <<"Sorry, I received an unexpected response.">>

\* frontend.py:50
StatusError(status) ==
    <<"Error: Could not connect to the API. (Status code: ", ToString(status), ")">>

\* frontend.py:53
NetworkError(e) == <<"Error: A network error occurred. ", e>>

\* frontend.py:27-35  a prompt is submitted: the script runs, the user
\* message is appended and shown, the payload is prepared
Submit ==
    /\ fe_pc = "input"
    /\ Len(exchanges) < MaxPrompts
    /\ \E q \in Questions :
          /\ prompt' = <<q>>
          /\ messages' = Append(messages, Message("user", <<q>>))
          /\ exchanges' = Append(exchanges, [prompt |-> <<q>>, outcome |-> NoResponse])
    /\ fe_pc' = "post"
    /\ UNCHANGED <<response, answer, index_vars, filter_vars, api_vars>>

\* frontend.py:42  requests.post returns a response or raises
Post ==
    /\ fe_pc = "post"
    /\ \E r \in PostOutcomes(prompt[1]) :
          /\ response' = r
          /\ exchanges' = [exchanges EXCEPT ![Len(exchanges)].outcome = r]
    /\ fe_pc' = "answer"
    /\ UNCHANGED <<messages, prompt, answer, index_vars, filter_vars, api_vars>>

\* frontend.py:44-53  answer is computed.  response.json() raises on a body
\* that is not JSON: a requests.exceptions.JSONDecodeError, which the except
\* clause catches, or with an older requests library a plain ValueError,
\* which it does not; data.get raises AttributeError when the JSON value is
\* not an object.  An exception that is not a RequestException leaves the
\* script: the run ends before line 56 and the session waits for input
SetAnswer ==
    /\ fe_pc = "answer"
    /\ \/ /\ response.kind = "exception"
          /\ answer' = NetworkError(response.error)
          /\ fe_pc' = "show"
       \/ /\ response.kind = "response" /\ response.status # 200
          /\ answer' = StatusError(response.status)
          /\ fe_pc' = "show"
       \/ /\ response.kind = "response" /\ response.status = 200
          /\ response.body.json /\ response.body.object
          /\ answer' = IF response.body.has_answer THEN response.body.answer
                       ELSE UnexpectedResponse
          /\ fe_pc' = "show"
       \/ /\ response.kind = "response" /\ response.status = 200
          /\ response.body.json /\ ~response.body.object
          /\ fe_pc' = "input"
          /\ UNCHANGED answer
       \/ /\ response.kind = "response" /\ response.status = 200
          /\ ~response.body.json
          /\ \/ /\ answer' = NetworkError("Expecting value: line 1 column 1 (char 0)")
                /\ fe_pc' = "show"
             \/ /\ fe_pc' = "input"
                /\ UNCHANGED answer
    /\ UNCHANGED <<messages, prompt, response, exchanges,
                   index_vars, filter_vars, api_vars>>

\* frontend.py:56-59  the answer is shown and appended to the history
ShowAnswer ==
    /\ fe_pc = "show"
    /\ messages' = Append(messages, Message("assistant", answer))
    /\ fe_pc' = "input"
    /\ UNCHANGED <<prompt, response, answer, exchanges,
                   index_vars, filter_vars, api_vars>>

\* frontend.py:18-19  a new session
InitFrontend ==
    /\ IndexIdle
    /\ FilterIdle
    /\ ApiIdle
    /\ fe_pc = "input"
    /\ messages = <<>>
    /\ prompt = <<>>
    /\ response = NoResponse
    /\ answer = <<>>
    /\ exchanges = <<>>

NextFrontend == Submit \/ Post \/ SetAnswer \/ ShowAnswer

SpecFrontend == InitFrontend /\ [][NextFrontend]_vars

\* the generic error strings of the front-end
IsGenericError(content) ==
    /\ content # <<>>
    /\ Head(content) \in {"Error: Could not connect to the API. (Status code: ",
                          "Error: A network error occurred. "}

\* the assistant message the claim names for an HTTP outcome
AssistantMessageFor(outcome, content) ==
    IF outcome.kind = "response" /\ outcome.status = 200
    THEN outcome.body.has_answer /\ content = outcome.body.answer
    ELSE IsGenericError(content)

\* C12: every submitted prompt appends exactly one user message followed by
\* exactly one assistant message, whatever the outcome of the HTTP call:
\* between two script runs the history has twice as many messages as prompts
\* were submitted, message 2k-1 is the k-th prompt with role user, message 2k
\* has role assistant and is the answer field of the k-th response on
\* status 200 and a generic error string on another status or on a network
\* error; during a run the last prompt's user message is the only one
\* without its assistant message.
C12_HistoryAlternates ==
    LET done == IF fe_pc = "input" THEN Len(exchanges) ELSE Len(exchanges) - 1
    IN  fe_pc # "off" =>
           /\ Len(messages) = Len(exchanges) + done
           /\ \A k \in 1..Len(exchanges) :
                 messages[2 * k - 1] = Message("user", exchanges[k].prompt)
           /\ \A k \in 1..done :
                 /\ messages[2 * k].role = "assistant"
                 /\ AssistantMessageFor(exchanges[k].outcome, messages[2 * k].content)

\* the outcomes the claim lists: a 200 that carries the answer field, another
\* status, a network error; and the run was not left by an exception
ListedOutcome(k) ==
    LET outcome == exchanges[k].outcome
    IN  \/ outcome.kind = "exception"
        \/ outcome.kind = "response" /\ outcome.status # 200
        \/ outcome.kind = "response" /\ outcome.status = 200
              /\ outcome.body.json /\ outcome.body.object /\ outcome.body.has_answer

\* the history alternates and carries the named messages as long as every
\* exchange so far had one of the listed outcomes
C12_HoldsForListedOutcomes ==
    (\A k \in 1..Len(exchanges) :
        exchanges[k].outcome.kind # "none" => ListedOutcome(k))
       => C12_HistoryAlternates

====
